---------------------------- MODULE Spec2Model ----------------------------
(***************************************************************************)
(* Model of minio_cliner (src/main.go, the complete revision that starts   *)
(* at line 401): the version-pruning pipeline of cleanSingleBucket and the *)
(* lifecycle reconciliation of processBucket.                              *)
(*                                                                         *)
(* The specifications share the variables:                                 *)
(*   Spec      one cleanSingleBucket run, deadline free to fire any time   *)
(*   SpecPair  a dry-run invocation followed by a real invocation on the   *)
(*             same bucket, with a deadline that is long compared to the   *)
(*             work (it fires only when the run cannot move without it)    *)
(*   SpecLive  one cleanSingleBucket run whose deadline never fires, with  *)
(*             fair goroutines                                             *)
(*   SpecApply repeated processBucket calls on one bucket                  *)
(*   SpecPolicy    checkSingleBucket on every rule set hasCorrectPolicy    *)
(*                 can tell apart                                          *)
(*   SpecApplyAll  applyLifecycle over the buckets ListBuckets returns     *)
(*   SpecCheckAll  checkLifecycle over the buckets ListBuckets returns     *)
(*   SpecCleanAll  cleanVersions: one cleanSingleBucket run after another  *)
(*   SpecCancel    one cleanSingleBucket run with fair goroutines and a    *)
(*                 listing that ends when the context does                 *)
(*   SpecRemove    one removeRuleByID call on every configuration          *)
(***************************************************************************)
EXTENDS Naturals, Sequences, FiniteSets

(* ---- bounds of the model ---- *)
MaxVersions == 3
MaxQuota == 3
MaxRules == 3
MaxApply == 2
MaxCheck == 1
MaxPolicyRules == 2
MaxBuckets == 2
MaxCleanVersions == 2
MaxCleanBuckets == 2

(* ---- program constants ---- *)
ruleID == "auto-clean-versions"
RemErrCap == 1

VARIABLES
    (* inputs of a clean run *)
    listing,            \* what ListObjects yields, in order
    maxObjectsPerRun,   \* cfg.Cleaner.MaxObjectsPerRun
    dryRun,             \* the -dry-run flag
    (* storage *)
    versions,           \* version ids still stored in the bucket
    (* cleanSingleBucket *)
    ctxDone,            \* the 5 minute context has expired
    pcMain,             \* "start", "wait", "done"
    report,             \* final log line of the run
    objIdx,             \* records delivered by objectsCh so far
    totalCount,
    processedCount,
    pcProd,             \* selection goroutine
    obj,                \* record held by the selection goroutine
    removeObjectsCh,    \* buffered content of the channel
    chClosed,           \* close(removeObjectsCh) has run
    pcRem,              \* RemoveObjects collaborator
    handed,             \* records RemoveObjects has received, in order
    nResolved,          \* how many of them it has answered
    remErrCh,           \* result channel of RemoveObjects
    pcFwd,              \* goroutine forwarding into errorCh
    fwdErr,             \* error held by the forwarding goroutine
    pcCol,              \* goroutine collecting errorCh
    hasErrors,
    failures,           \* "Failed to remove" log lines, in order
    reports,            \* outcomes of the invocations that ended before
    (* cleanVersions *)
    nBuckets,           \* buckets ListBuckets returned
    cleanPos,           \* buckets whose cleanSingleBucket call has begun
    pcClean,            \* "idle", "list", "loop", "done", "fatal"
    (* processBucket *)
    lifecycle,          \* configuration stored for the bucket
    setLog,             \* configurations passed to SetBucketLifecycle
    applyLog,           \* log line of every processBucket call
    checkLog,           \* output line of every checkSingleBucket call
    (* applyLifecycle *)
    stores,             \* configuration stored for each bucket ListBuckets names
    bucketName,         \* the -bucket flag: 0 for "", else the bucket's number
    pcApply,            \* "idle", "start", "loop", "done", "fatal"
    applyPos,           \* buckets the range loop has finished
    setCalls,           \* SetBucketLifecycle calls: bucket and configuration
    bucketLog,          \* log line of processBucket for each bucket, in order
    (* removeRuleByID *)
    removeArgs,         \* the arguments of the call: lfcCfg and ilmID
    removeRet           \* what the call returned, once it has

loopVars == <<nBuckets, cleanPos, pcClean>>
cleanVars == <<listing, maxObjectsPerRun, dryRun, versions, ctxDone, pcMain,
               report, objIdx, totalCount, processedCount, pcProd, obj,
               removeObjectsCh, chClosed, pcRem, handed, nResolved, remErrCh,
               pcFwd, fwdErr, pcCol, hasErrors, failures, reports, loopVars>>
listVars == <<stores, bucketName, pcApply, applyPos, setCalls, bucketLog>>
removeVars == <<removeArgs, removeRet>>
applyVars == <<lifecycle, setLog, applyLog, checkLog, listVars, removeVars>>
vars == <<cleanVars, applyVars>>

(* a *lifecycle.Configuration: the nil pointer, or a configuration with
   its Rules slice *)
NilCfg == [isNil |-> TRUE, Rules |-> <<>>]
Cfg(rules) == [isNil |-> FALSE, Rules |-> rules]
(* removeRuleByID has not returned *)
NoRet == [called |-> FALSE, cfg |-> NilCfg, removed |-> FALSE]

NoObj == [VersionID |-> 0, IsLatest |-> TRUE]
NoErr == [VersionID |-> 0]
(* a bucket without lifecycle configuration holds no rule; GetBucketLifecycle
   answers it with the error code NoSuchLifecycleConfiguration *)
Absent == <<>>


(***************************************************************************)
(* Inputs.  A record of the version listing carries its position as the    *)
(* version id, so that records are distinguishable.                        *)
(***************************************************************************)
Record(i, latest) == [VersionID |-> i, IsLatest |-> latest]

Listings ==
    UNION {{[i \in 1..n |-> Record(i, f[i])] : f \in [1..n -> BOOLEAN]} :
           n \in 0..MaxVersions}

Quotas == 0..MaxQuota

(* mutant of isPrunable: the test on IsLatest is lost *)
isPrunableAlways(o) == TRUE

(* VersionClassifier: the test `!obj.IsLatest` of the selection loop. *)
isPrunable(o) == ~o.IsLatest

(* capacity test of `removeObjectsCh <- obj` on make(chan, maxObjectsPerRun);
   with capacity 0 the send needs RemoveObjects to be receiving *)
CanBuffer == Len(removeObjectsCh) < maxObjectsPerRun
CanRendezvous == maxObjectsPerRun = 0 /\ pcRem = "recv"
              /\ removeObjectsCh = <<>>

ProdReturned == pcProd \in {"eof", "limit", "timeout"}

(* all records the selection goroutine has enqueued so far, in order *)
Selected == handed \o removeObjectsCh

(***************************************************************************)
(* cleanSingleBucket: entry, BucketExists, start of the three goroutines.  *)
(***************************************************************************)
InitRun(l, q, d) ==
    /\ listing = l
    /\ maxObjectsPerRun = q
    /\ dryRun = d
    /\ versions = {l[i].VersionID : i \in 1..Len(l)}
    /\ ctxDone = FALSE
    /\ pcMain = "start"
    /\ report = "none"
    /\ objIdx = 0
    /\ totalCount = 0
    /\ processedCount = 0
    /\ pcProd = "idle"
    /\ obj = NoObj
    /\ removeObjectsCh = <<>>
    /\ chClosed = FALSE
    /\ pcRem = "idle"
    /\ handed = <<>>
    /\ nResolved = 0
    /\ remErrCh = <<>>
    /\ pcFwd = "idle"
    /\ fwdErr = NoErr
    /\ pcCol = "idle"
    /\ hasErrors = FALSE
    /\ failures = <<>>

(* cleanVersions is not looping over buckets *)
InitLoopIdle ==
    /\ nBuckets = 0
    /\ cleanPos = 0
    /\ pcClean = "idle"

(* removeRuleByID has not been called *)
InitRemoveIdle ==
    /\ removeArgs = [cfg |-> NilCfg, id |-> ruleID]
    /\ removeRet = NoRet

(* applyLifecycle is not running *)
InitListIdle ==
    /\ stores = <<>>
    /\ bucketName = 0
    /\ pcApply = "idle"
    /\ applyPos = 0
    /\ setCalls = <<>>
    /\ bucketLog = <<>>

InitApplyIdle ==
    /\ lifecycle = Absent
    /\ setLog = <<>>
    /\ applyLog = <<>>
    /\ checkLog = <<>>
    /\ InitListIdle
    /\ InitRemoveIdle

Init ==
    /\ \E l \in Listings, q \in Quotas, d \in BOOLEAN : InitRun(l, q, d)
    /\ reports = <<>>
    /\ InitLoopIdle
    /\ InitApplyIdle

(* BucketExists answered (true, nil): ListObjects, make(chan), go ... *)
StartRun ==
    /\ pcMain = "start"
    /\ pcMain' = "wait"
    /\ pcProd' = "range"
    /\ pcFwd' = "start"
    /\ pcCol' = "range"
    /\ UNCHANGED <<listing, maxObjectsPerRun, dryRun, versions, ctxDone,
                   report, objIdx, totalCount, processedCount, obj,
                   removeObjectsCh, chClosed, pcRem, handed, nResolved,
                   remErrCh, fwdErr, hasErrors, failures, reports, loopVars>>
    /\ UNCHANGED applyVars

(* BucketExists answered an error or false: log and return *)
BucketMissing ==
    /\ pcMain = "start"
    /\ pcMain' = "done"
    /\ report' = "bucket_missing"
    /\ UNCHANGED <<listing, maxObjectsPerRun, dryRun, versions, ctxDone,
                   objIdx, totalCount, processedCount, pcProd, obj,
                   removeObjectsCh, chClosed, pcRem, handed, nResolved,
                   remErrCh, pcFwd, fwdErr, pcCol, hasErrors, failures,
                   reports, loopVars>>
    /\ UNCHANGED applyVars

(* context.WithTimeout(..., 5*time.Minute) expires *)
Deadline ==
    /\ pcMain \in {"start", "wait"}
    /\ ~ctxDone
    /\ ctxDone' = TRUE
    /\ UNCHANGED <<listing, maxObjectsPerRun, dryRun, versions, pcMain,
                   report, objIdx, totalCount, processedCount, pcProd, obj,
                   removeObjectsCh, chClosed, pcRem, handed, nResolved,
                   remErrCh, pcFwd, fwdErr, pcCol, hasErrors, failures,
                   reports, loopVars>>
    /\ UNCHANGED applyVars

(***************************************************************************)
(* Selection goroutine.                                                    *)
(***************************************************************************)
prodFrame == <<listing, maxObjectsPerRun, dryRun, versions, ctxDone, pcMain,
               report, nResolved, remErrCh, pcFwd, fwdErr, pcCol, hasErrors,
               failures, reports, loopVars>>

(* mutant of ProdRead: totalCount is incremented for non-current versions
   only *)
ProdReadCountPrunable ==
    /\ pcProd = "range"
    /\ objIdx < Len(listing)
    /\ objIdx' = objIdx + 1
    /\ IF isPrunable(listing[objIdx + 1])
         THEN /\ obj' = listing[objIdx + 1]
              /\ pcProd' = "select"
              /\ totalCount' = totalCount + 1
         ELSE /\ obj' = NoObj
              /\ pcProd' = "range"
              /\ totalCount' = totalCount
    /\ UNCHANGED <<processedCount, removeObjectsCh, chClosed, pcRem, handed>>
    /\ UNCHANGED prodFrame
    /\ UNCHANGED applyVars

(* `for obj := range objectsCh` yields a record; totalCount is incremented
   and a current version is skipped *)
ProdRead ==
    /\ pcProd = "range"
    /\ objIdx < Len(listing)
    /\ objIdx' = objIdx + 1
    /\ totalCount' = totalCount + 1
    /\ IF isPrunable(listing[objIdx + 1])
         THEN /\ obj' = listing[objIdx + 1]
              /\ pcProd' = "select"
         ELSE /\ obj' = NoObj
              /\ pcProd' = "range"
    /\ UNCHANGED <<processedCount, removeObjectsCh, chClosed, pcRem, handed>>
    /\ UNCHANGED prodFrame
    /\ UNCHANGED applyVars

(* objectsCh is closed: the listing ended, or ListObjects gave up because
   its context expired; the deferred close(removeObjectsCh) runs *)
ProdEOF ==
    /\ pcProd = "range"
    /\ objIdx = Len(listing) \/ ctxDone
    /\ pcProd' = "eof"
    /\ chClosed' = TRUE
    /\ UNCHANGED <<objIdx, totalCount, processedCount, obj, removeObjectsCh,
                   pcRem, handed>>
    /\ UNCHANGED prodFrame
    /\ UNCHANGED applyVars

(* mutant of AfterSend: there is no limit test *)
AfterSendNoLimit(count) == "range"

(* mutant of AfterSend: the limit test is strict *)
AfterSendStrict(count) == IF count > maxObjectsPerRun THEN "limit" ELSE "range"

(* where the selection goroutine goes after a successful send:
   `if processedCount >= maxObjectsPerRun { log; return }` *)
AfterSend(count) == IF count >= maxObjectsPerRun THEN "limit" ELSE "range"

(* `case removeObjectsCh <- obj: processedCount++`, then the limit test *)
ProdSend ==
    /\ pcProd = "select"
    /\ \/ /\ CanBuffer
          /\ removeObjectsCh' = Append(removeObjectsCh, obj)
          /\ handed' = handed
       \/ /\ CanRendezvous
          /\ removeObjectsCh' = removeObjectsCh
          /\ handed' = Append(handed, obj)
    /\ processedCount' = processedCount + 1
    /\ pcProd' = AfterSend(processedCount + 1)
    /\ chClosed' = (AfterSend(processedCount + 1) = "limit")
    /\ obj' = NoObj
    /\ UNCHANGED <<objIdx, totalCount, pcRem>>
    /\ UNCHANGED prodFrame
    /\ UNCHANGED applyVars

(* mutant of ProdTimeout: the select has no `case <-ctx.Done()` *)
ProdTimeoutNever ==
    /\ pcProd = "select"
    /\ FALSE
    /\ UNCHANGED vars

(* `case <-ctx.Done(): return` *)
ProdTimeout ==
    /\ pcProd = "select"
    /\ ctxDone
    /\ pcProd' = "timeout"
    /\ chClosed' = TRUE
    /\ obj' = NoObj
    /\ UNCHANGED <<objIdx, totalCount, processedCount, removeObjectsCh,
                   pcRem, handed>>
    /\ UNCHANGED prodFrame
    /\ UNCHANGED applyVars

(***************************************************************************)
(* Deletion goroutine (main.go 804-813) and the RemoveObjects collaborator *)
(* it calls.  The collaborator is the storage client: it receives from     *)
(* removeObjectsCh, answers every record it received either by deleting    *)
(* the version or by a failure record on its result channel, and closes    *)
(* the result channel once its input is closed and drained.  After the     *)
(* context expired it may also give up before draining.                    *)
(***************************************************************************)
delFrame == <<listing, maxObjectsPerRun, dryRun, ctxDone, pcMain, report,
              objIdx, totalCount, processedCount, pcProd, obj, chClosed,
              reports, loopVars>>

(* mutant of CallsRemoveObjects: the dry-run test is lost *)
CallsRemoveObjectsAlways == TRUE

(* whether the deletion goroutine calls RemoveObjects: `if !dryRun` *)
CallsRemoveObjects == ~dryRun

(* the goroutine starts: in dry-run it returns at once and the deferred
   close(errorCh) runs; otherwise it calls RemoveObjects and ranges over
   the result channel *)
FwdStart ==
    /\ pcFwd = "start"
    /\ IF CallsRemoveObjects
         THEN /\ pcRem' = "recv"
              /\ pcFwd' = "range"
         ELSE /\ pcRem' = pcRem
              /\ pcFwd' = "done"
    /\ UNCHANGED <<versions, removeObjectsCh, handed, nResolved, remErrCh,
                   fwdErr, pcCol, hasErrors, failures>>
    /\ UNCHANGED delFrame
    /\ UNCHANGED applyVars

(* RemoveObjects receives a buffered record *)
RemRecv ==
    /\ pcRem = "recv"
    /\ removeObjectsCh # <<>>
    /\ handed' = Append(handed, Head(removeObjectsCh))
    /\ removeObjectsCh' = Tail(removeObjectsCh)
    /\ UNCHANGED <<versions, pcRem, nResolved, remErrCh, pcFwd, fwdErr,
                   pcCol, hasErrors, failures>>
    /\ UNCHANGED delFrame
    /\ UNCHANGED applyVars

(* RemoveObjects answers the oldest unanswered record: the version is
   deleted, or a failure record is emitted *)
RemResolve(fail) ==
    /\ pcRem = "recv"
    /\ nResolved < Len(handed)
    /\ nResolved' = nResolved + 1
    /\ IF fail
         THEN /\ Len(remErrCh) < RemErrCap
              /\ remErrCh' = Append(remErrCh,
                                    [VersionID |-> handed[nResolved + 1].VersionID])
              /\ versions' = versions
         ELSE /\ remErrCh' = remErrCh
              /\ versions' = versions \ {handed[nResolved + 1].VersionID}
    /\ UNCHANGED <<removeObjectsCh, pcRem, handed, pcFwd, fwdErr, pcCol,
                   hasErrors, failures>>
    /\ UNCHANGED delFrame
    /\ UNCHANGED applyVars

(* RemoveObjects closes its result channel: input closed and drained and
   every record answered, or the context expired *)
RemClose ==
    /\ pcRem = "recv"
    /\ \/ chClosed /\ removeObjectsCh = <<>> /\ nResolved = Len(handed)
       \/ ctxDone
    /\ pcRem' = "closed"
    /\ UNCHANGED <<versions, removeObjectsCh, handed, nResolved, remErrCh,
                   pcFwd, fwdErr, pcCol, hasErrors, failures>>
    /\ UNCHANGED delFrame
    /\ UNCHANGED applyVars

(* `for err := range client.RemoveObjects(...)` receives a failure *)
FwdRecv ==
    /\ pcFwd = "range"
    /\ remErrCh # <<>>
    /\ fwdErr' = Head(remErrCh)
    /\ remErrCh' = Tail(remErrCh)
    /\ pcFwd' = "send"
    /\ UNCHANGED <<versions, removeObjectsCh, pcRem, handed, nResolved,
                   pcCol, hasErrors, failures>>
    /\ UNCHANGED delFrame
    /\ UNCHANGED applyVars

(* mutant of FwdSend: the failure is logged but hasErrors is not set *)
FwdSendNoFlag ==
    /\ pcFwd = "send"
    /\ pcCol = "range"
    /\ failures' = Append(failures, fwdErr)
    /\ fwdErr' = NoErr
    /\ pcFwd' = "range"
    /\ UNCHANGED <<versions, removeObjectsCh, pcRem, handed, nResolved,
                   remErrCh, pcCol, hasErrors>>
    /\ UNCHANGED delFrame
    /\ UNCHANGED applyVars

(* `errorCh <- err` meets `for e := range errorCh` of the collecting
   goroutine (errorCh is unbuffered): the failure is logged and hasErrors
   is set *)
FwdSend ==
    /\ pcFwd = "send"
    /\ pcCol = "range"
    /\ failures' = Append(failures, fwdErr)
    /\ hasErrors' = TRUE
    /\ fwdErr' = NoErr
    /\ pcFwd' = "range"
    /\ UNCHANGED <<versions, removeObjectsCh, pcRem, handed, nResolved,
                   remErrCh, pcCol>>
    /\ UNCHANGED delFrame
    /\ UNCHANGED applyVars

(* the result channel is closed and empty: the range loop ends and the
   deferred close(errorCh) runs *)
FwdEnd ==
    /\ pcFwd = "range"
    /\ pcRem = "closed"
    /\ remErrCh = <<>>
    /\ pcFwd' = "done"
    /\ UNCHANGED <<versions, removeObjectsCh, pcRem, handed, nResolved,
                   remErrCh, fwdErr, pcCol, hasErrors, failures>>
    /\ UNCHANGED delFrame
    /\ UNCHANGED applyVars

(* errorCh is closed: the collecting goroutine returns *)
ColEnd ==
    /\ pcCol = "range"
    /\ pcFwd = "done"
    /\ pcCol' = "done"
    /\ UNCHANGED <<versions, removeObjectsCh, pcRem, handed, nResolved,
                   remErrCh, pcFwd, fwdErr, hasErrors, failures>>
    /\ UNCHANGED delFrame
    /\ UNCHANGED applyVars

(***************************************************************************)
(* wg.Wait() returns and the result is logged (main.go 828-844).           *)
(***************************************************************************)
(* mutant of FinalLog: a real run is always reported with errors *)
FinalLogAlwaysErrors ==
    IF dryRun THEN "dry_run_completed" ELSE "completed_with_errors"

FinalLog ==
    IF dryRun THEN "dry_run_completed"
    ELSE IF hasErrors THEN "completed_with_errors"
    ELSE "successfully_deleted"

WaitReturns ==
    /\ pcMain = "wait"
    /\ ProdReturned
    /\ pcFwd = "done"
    /\ pcCol = "done"
    /\ pcMain' = "done"
    /\ report' = FinalLog
    /\ UNCHANGED <<listing, maxObjectsPerRun, dryRun, versions, ctxDone,
                   objIdx, totalCount, processedCount, pcProd, obj,
                   removeObjectsCh, chClosed, pcRem, handed, nResolved,
                   remErrCh, pcFwd, fwdErr, pcCol, hasErrors, failures,
                   reports, loopVars>>
    /\ UNCHANGED applyVars

Next ==
    \/ StartRun
    \/ BucketMissing
    \/ Deadline
    \/ ProdRead
    \/ ProdEOF
    \/ ProdSend
    \/ ProdTimeout
    \/ FwdStart
    \/ RemRecv
    \/ \E fail \in BOOLEAN : RemResolve(fail)
    \/ RemClose
    \/ FwdRecv
    \/ FwdSend
    \/ FwdEnd
    \/ ColEnd
    \/ WaitReturns

Spec == Init /\ [][Next]_vars

(***************************************************************************)
(* SpecPair: `clean -dry-run` followed by `clean` on the same bucket with  *)
(* the same configuration.  The 5 minute deadline is long compared to the  *)
(* work: it fires only in a state where no goroutine can take a step, so   *)
(* both invocations meet the same deadline timing.                         *)
(***************************************************************************)
Progress ==
    \/ StartRun \/ BucketMissing
    \/ ProdRead \/ ProdEOF \/ ProdSend \/ ProdTimeout
    \/ FwdStart \/ RemRecv \/ (\E fail \in BOOLEAN : RemResolve(fail))
    \/ RemClose \/ FwdRecv \/ FwdSend \/ FwdEnd \/ ColEnd \/ WaitReturns

DeadlineLate ==
    /\ ~ENABLED Progress
    /\ Deadline

(* what an invocation leaves behind: its counters and the records it
   enqueued *)
Outcome ==
    [dryRun |-> dryRun, report |-> report, total |-> totalCount,
     processed |-> processedCount, selected |-> Selected,
     deleted |-> {listing[i].VersionID : i \in 1..Len(listing)} \ versions,
     failures |-> failures]

StillStored(r) == r.VersionID \in versions

(* the program is run again without -dry-run: ListObjects yields what the
   bucket still holds, every local of cleanSingleBucket starts afresh *)
SecondInvocation ==
    /\ pcMain = "done"
    /\ dryRun
    /\ reports = <<>>
    /\ reports' = <<Outcome>>
    /\ UNCHANGED loopVars
    /\ dryRun' = FALSE
    /\ listing' = SelectSeq(listing, StillStored)
    /\ ctxDone' = FALSE
    /\ pcMain' = "start"
    /\ report' = "none"
    /\ objIdx' = 0
    /\ totalCount' = 0
    /\ processedCount' = 0
    /\ pcProd' = "idle"
    /\ obj' = NoObj
    /\ removeObjectsCh' = <<>>
    /\ chClosed' = FALSE
    /\ pcRem' = "idle"
    /\ handed' = <<>>
    /\ nResolved' = 0
    /\ remErrCh' = <<>>
    /\ pcFwd' = "idle"
    /\ fwdErr' = NoErr
    /\ pcCol' = "idle"
    /\ hasErrors' = FALSE
    /\ failures' = <<>>
    /\ UNCHANGED <<maxObjectsPerRun, versions>>
    /\ UNCHANGED applyVars

InitPair ==
    /\ \E l \in Listings, q \in Quotas : InitRun(l, q, TRUE)
    /\ reports = <<>>
    /\ InitLoopIdle
    /\ InitApplyIdle

NextPair ==
    \/ StartRun
    \/ BucketMissing
    \/ DeadlineLate
    \/ ProdRead
    \/ ProdEOF
    \/ ProdSend
    \/ ProdTimeout
    \/ FwdStart
    \/ RemRecv
    \/ \E fail \in BOOLEAN : RemResolve(fail)
    \/ RemClose
    \/ FwdRecv
    \/ FwdSend
    \/ FwdEnd
    \/ ColEnd
    \/ WaitReturns
    \/ SecondInvocation

SpecPair == InitPair /\ [][NextPair]_vars

(***************************************************************************)
(* SpecCleanAll: cleanVersions.  With -bucket one cleanSingleBucket call;  *)
(* without, ListBuckets and one cleanSingleBucket call after the other,    *)
(* each with its own context, counters and channels (they are locals of    *)
(* the call) and the same cfg and -dry-run flag.  reports holds the final  *)
(* line of every call that returned.                                       *)
(***************************************************************************)
CleanListings ==
    UNION {{[i \in 1..n |-> Record(i, f[i])] : f \in [1..n -> BOOLEAN]} :
           n \in 0..MaxCleanVersions}

(* the locals of cleanSingleBucket at its entry (pc = "start") on a bucket
   that lists l, and after its return (pc = "idle", l empty) *)
EnterRun(l, pc) ==
    /\ listing' = l
    /\ versions' = {l[i].VersionID : i \in 1..Len(l)}
    /\ ctxDone' = FALSE
    /\ pcMain' = pc
    /\ report' = "none"
    /\ objIdx' = 0
    /\ totalCount' = 0
    /\ processedCount' = 0
    /\ pcProd' = "idle"
    /\ obj' = NoObj
    /\ removeObjectsCh' = <<>>
    /\ chClosed' = FALSE
    /\ pcRem' = "idle"
    /\ handed' = <<>>
    /\ nResolved' = 0
    /\ remErrCh' = <<>>
    /\ pcFwd' = "idle"
    /\ fwdErr' = NoErr
    /\ pcCol' = "idle"
    /\ hasErrors' = FALSE
    /\ failures' = <<>>

(* the branch `bucketName != ""`: cleanSingleBucket on the named bucket *)
CleanFiltered(l) ==
    /\ pcClean = "list"
    /\ bucketName # 0
    /\ EnterRun(l, "start")
    /\ pcClean' = "single"
    /\ UNCHANGED <<maxObjectsPerRun, dryRun, reports, nBuckets, cleanPos>>
    /\ UNCHANGED applyVars

(* ListBuckets answers n buckets, or fails and log.Fatalf ends the process *)
CleanListBuckets(listErr, n) ==
    /\ pcClean = "list"
    /\ bucketName = 0
    /\ IF listErr
       THEN pcClean' = "fatal" /\ nBuckets' = nBuckets
       ELSE pcClean' = "loop" /\ nBuckets' = n
    /\ UNCHANGED <<listing, maxObjectsPerRun, dryRun, versions, ctxDone,
                   pcMain, report, objIdx, totalCount, processedCount, pcProd,
                   obj, removeObjectsCh, chClosed, pcRem, handed, nResolved,
                   remErrCh, pcFwd, fwdErr, pcCol, hasErrors, failures,
                   reports, cleanPos>>
    /\ UNCHANGED applyVars

(* mutant of AfterRun: a bucket that does not exist ends the loop *)
AfterRunStopOnMissing(line) ==
    IF line = "bucket_missing" THEN "fatal" ELSE "loop"

(* the range loop after cleanSingleBucket returned with this final line:
   it goes on with the next bucket whatever the call did *)
AfterRun(line) == "loop"

(* cleanSingleBucket returns *)
CleanRunReturns ==
    /\ pcClean \in {"single", "loop"}
    /\ pcMain = "done"
    /\ reports' = Append(reports, report)
    /\ pcClean' = IF pcClean = "single" THEN "done" ELSE AfterRun(report)
    /\ EnterRun(<<>>, "idle")
    /\ UNCHANGED <<maxObjectsPerRun, dryRun, nBuckets, cleanPos>>
    /\ UNCHANGED applyVars

(* the next iteration of `for _, bucket := range buckets` *)
CleanNextBucket(l) ==
    /\ pcClean = "loop"
    /\ pcMain = "idle"
    /\ cleanPos < nBuckets
    /\ cleanPos' = cleanPos + 1
    /\ EnterRun(l, "start")
    /\ UNCHANGED <<maxObjectsPerRun, dryRun, reports, nBuckets, pcClean>>
    /\ UNCHANGED applyVars

(* the range is exhausted: cleanVersions returns *)
CleanLoopEnd ==
    /\ pcClean = "loop"
    /\ pcMain = "idle"
    /\ cleanPos = nBuckets
    /\ pcClean' = "done"
    /\ UNCHANGED <<listing, maxObjectsPerRun, dryRun, versions, ctxDone,
                   pcMain, report, objIdx, totalCount, processedCount, pcProd,
                   obj, removeObjectsCh, chClosed, pcRem, handed, nResolved,
                   remErrCh, pcFwd, fwdErr, pcCol, hasErrors, failures,
                   reports, nBuckets, cleanPos>>
    /\ UNCHANGED applyVars

(* no cleanSingleBucket call is running *)
IdleRun ==
    /\ listing = <<>>
    /\ versions = {}
    /\ ctxDone = FALSE
    /\ pcMain = "idle"
    /\ report = "none"
    /\ objIdx = 0
    /\ totalCount = 0
    /\ processedCount = 0
    /\ pcProd = "idle"
    /\ obj = NoObj
    /\ removeObjectsCh = <<>>
    /\ chClosed = FALSE
    /\ pcRem = "idle"
    /\ handed = <<>>
    /\ nResolved = 0
    /\ remErrCh = <<>>
    /\ pcFwd = "idle"
    /\ fwdErr = NoErr
    /\ pcCol = "idle"
    /\ hasErrors = FALSE
    /\ failures = <<>>

InitCleanAll ==
    /\ IdleRun
    /\ maxObjectsPerRun \in Quotas
    /\ dryRun \in BOOLEAN
    /\ reports = <<>>
    /\ nBuckets = 0
    /\ cleanPos = 0
    /\ pcClean = "list"
    /\ lifecycle = Absent
    /\ setLog = <<>>
    /\ applyLog = <<>>
    /\ checkLog = <<>>
    /\ stores = <<>>
    /\ bucketName \in {0, 1}
    /\ pcApply = "idle"
    /\ applyPos = 0
    /\ setCalls = <<>>
    /\ bucketLog = <<>>
    /\ InitRemoveIdle

NextCleanAll ==
    \/ \E l \in CleanListings : CleanFiltered(l)
    \/ \E listErr \in BOOLEAN, n \in 0..MaxCleanBuckets :
          CleanListBuckets(listErr, n)
    \/ CleanRunReturns
    \/ \E l \in CleanListings : CleanNextBucket(l)
    \/ CleanLoopEnd
    \/ StartRun
    \/ BucketMissing
    \/ Deadline
    \/ ProdRead
    \/ ProdEOF
    \/ ProdSend
    \/ ProdTimeout
    \/ FwdStart
    \/ RemRecv
    \/ \E fail \in BOOLEAN : RemResolve(fail)
    \/ RemClose
    \/ FwdRecv
    \/ FwdSend
    \/ FwdEnd
    \/ ColEnd
    \/ WaitReturns

SpecCleanAll == InitCleanAll /\ [][NextCleanAll]_vars

(***************************************************************************)
(* SpecLive: a run whose deadline never fires.  Every goroutine that can   *)
(* take a step eventually takes one (the Go scheduler), and RemoveObjects  *)
(* keeps receiving, answering and finally closes its result channel.       *)
(***************************************************************************)
LiveNext ==
    \/ StartRun \/ BucketMissing
    \/ ProdRead \/ ProdEOF \/ ProdSend
    \/ FwdStart \/ RemRecv \/ (\E fail \in BOOLEAN : RemResolve(fail))
    \/ RemClose \/ FwdRecv \/ FwdSend \/ FwdEnd \/ ColEnd \/ WaitReturns

LiveFairness ==
    /\ WF_vars(StartRun \/ BucketMissing)
    /\ WF_vars(ProdRead \/ ProdEOF \/ ProdSend)
    /\ WF_vars(RemRecv)
    /\ WF_vars(\E fail \in BOOLEAN : RemResolve(fail))
    /\ WF_vars(RemClose)
    /\ WF_vars(FwdStart \/ FwdRecv \/ FwdSend \/ FwdEnd)
    /\ WF_vars(ColEnd)
    /\ WF_vars(WaitReturns)

SpecLive == Init /\ [][LiveNext]_vars /\ LiveFairness

(***************************************************************************)
(* SpecCancel: a run whose deadline may fire at any time, with fair        *)
(* goroutines.  ListObjects is free never to deliver its next record       *)
(* (ProdRead has no fairness), but, being given ctx, it closes objectsCh   *)
(* once ctx has expired; RemoveObjects closes its result channel once its  *)
(* input is closed and drained or ctx has expired.                         *)
(***************************************************************************)
CancelFairness ==
    /\ WF_vars(StartRun \/ BucketMissing)
    /\ WF_vars(ProdEOF)
    /\ WF_vars(ProdSend \/ ProdTimeout)
    /\ WF_vars(RemRecv)
    /\ WF_vars(\E fail \in BOOLEAN : RemResolve(fail))
    /\ WF_vars(RemClose)
    /\ WF_vars(FwdStart \/ FwdRecv \/ FwdSend \/ FwdEnd)
    /\ WF_vars(ColEnd)
    /\ WF_vars(WaitReturns)

SpecCancel == Init /\ [][Next]_vars /\ CancelFairness

(***************************************************************************)
(* Properties of the pruning pipeline.                                     *)
(***************************************************************************)
Min(a, b) == IF a < b THEN a ELSE b
NonCurrent(r) == ~r.IsLatest
Prunables(l) == SelectSeq(l, NonCurrent)
FirstN(s, n) == SubSeq(s, 1, Min(n, Len(s)))
RunEnded == pcMain = "done" /\ report # "bucket_missing"

(* C1: quota law -- in every reachable state of a run, dry or real, the
   number of records enqueued for deletion (processedCount) is at most the
   quota maxObjectsPerRun, for every quota >= 0. *)
QuotaLaw == processedCount <= maxObjectsPerRun

(* the quota law restricted to quotas of at least one *)
QuotaLawPositive == maxObjectsPerRun >= 1 => processedCount <= maxObjectsPerRun

(* C2: no current version is handed to the deletion collaborator -- every
   record the run has placed on the channel given to RemoveObjects, whether
   still buffered or already received, has IsLatest = FALSE. *)
NoCurrentVersionEnqueued ==
    \A i \in 1..Len(Selected) : Selected[i].IsLatest = FALSE

(* C2 witness: a run that read a current version and enqueued a later
   non-current one has ended *)
NoCurrentVersionEnqueuedWitness ==
    /\ RunEnded
    /\ \E i \in 1..Len(listing) : \E j \in 1..Len(Selected) :
          listing[i].IsLatest /\ i < Selected[j].VersionID

(* C3: in dry-run mode RemoveObjects is never invoked, it receives no
   record, and the bucket keeps every version it had. *)
DryRunNeverDeletes ==
    dryRun => /\ pcRem = "idle"
              /\ handed = <<>>
              /\ versions = {listing[i].VersionID : i \in 1..Len(listing)}

(* C3 witness: a dry run that selected records has ended, also after the
   deadline fired *)
DryRunNeverDeletesWitness ==
    /\ dryRun
    /\ RunEnded
    /\ processedCount >= 2
    /\ ctxDone

(* C4: a real run whose deadline did not fire hands RemoveObjects exactly
   the first min(quota, number of non-current records) non-current records
   of the listing, once each, in listing order. *)
ExactlySelectedSetHandedOver ==
    (RunEnded /\ ~dryRun /\ ~ctxDone)
        => handed = FirstN(Prunables(listing), maxObjectsPerRun)

(* the same, for quotas of at least one *)
ExactlySelectedSetHandedOverPositive ==
    (RunEnded /\ ~dryRun /\ ~ctxDone /\ maxObjectsPerRun >= 1)
        => handed = FirstN(Prunables(listing), maxObjectsPerRun)

(* C5: dry-run equivalence -- on the same listing and quota and under the
   same deadline timing, the dry run and the real run end with the same
   totalCount, the same processedCount and the same selected records; the
   dry run deleted nothing and recorded no failure. *)
DryRunEquivalence ==
    (Len(reports) = 1 /\ RunEnded /\ reports[1].report # "bucket_missing")
        => /\ reports[1].total = totalCount
           /\ reports[1].processed = processedCount
           /\ reports[1].selected = Selected
           /\ reports[1].deleted = {}
           /\ reports[1].failures = <<>>

(* the same, for quotas of at least one *)
DryRunEquivalencePositive ==
    maxObjectsPerRun >= 1 => DryRunEquivalence

(***************************************************************************)
(* Lifecycle reconciliation: processBucket, checkSingleBucket and their    *)
(* helpers (main.go 592-727, 847-869).                                     *)
(***************************************************************************)
Rule(id, status, days, newer, marker) ==
    [ID |-> id, Status |-> status, NoncurrentDays |-> days,
     NewerNoncurrentVersions |-> newer, DeleteMarker |-> marker]

(* the rules a stored configuration is drawn from: under the managed and
   under a foreign identifier, the managed shape and every shape that
   differs from it in one field *)
RuleIDs == {ruleID, "old-rule"}
RulePool ==
    UNION {{Rule(id, "Enabled", 1, 1, TRUE),
            Rule(id, "Disabled", 1, 1, TRUE),
            Rule(id, "Enabled", 2, 1, TRUE),
            Rule(id, "Enabled", 1, 0, TRUE),
            Rule(id, "Enabled", 1, 1, FALSE)} : id \in RuleIDs}

RuleSets ==
    UNION {[1..n -> RulePool] : n \in 1..MaxRules}

(* mutant of createDefaultLifecycle: the rule of the earlier revision,
   without NewerNoncurrentVersions and DeleteMarker *)
createDefaultLifecycleEarlier ==
    <<Rule("auto-clean-versions", "Enabled", 1, 0, FALSE)>>

createDefaultLifecycle ==
    <<Rule("auto-clean-versions", "Enabled", 1, 1, TRUE)>>

(* mutant of hasCorrectRule: the two-field test of the earlier revision *)
hasCorrectRuleEarlier(rule) ==
    /\ rule.Status = "Enabled"
    /\ rule.NoncurrentDays = 1

hasCorrectRule(rule) ==
    /\ rule.Status = "Enabled"
    /\ rule.NoncurrentDays = 1
    /\ rule.NewerNoncurrentVersions = 1
    /\ rule.DeleteMarker

hasCorrectPolicy(lc) ==
    \E i \in 1..Len(lc) : hasCorrectRule(lc[i])

(* mutant of Compact: the survivors are written back to front *)
RECURSIVE CompactReversed(_, _, _, _)
CompactReversed(rules, ilmID, i, kept) ==
    IF i > Len(rules) THEN kept
    ELSE CompactReversed(rules, ilmID, i + 1,
                 IF rules[i].ID # ilmID THEN <<rules[i]>> \o kept ELSE kept)

(* the compaction loop of removeRuleByID: rules[1..i-1] are done and kept
   holds the survivors *)
RECURSIVE Compact(_, _, _, _)
Compact(rules, ilmID, i, kept) ==
    IF i > Len(rules) THEN kept
    ELSE Compact(rules, ilmID, i + 1,
                 IF rules[i].ID # ilmID THEN Append(kept, rules[i]) ELSE kept)

(* mutant of removeRuleByID: only the first rule with the identifier is
   removed *)
removeFirstRuleByID(lfcCfg, ilmID) ==
    IF \E i \in 1..Len(lfcCfg) : lfcCfg[i].ID = ilmID
    THEN LET first == CHOOSE i \in 1..Len(lfcCfg) :
                         /\ lfcCfg[i].ID = ilmID
                         /\ \A j \in 1..(i - 1) : lfcCfg[j].ID # ilmID
         IN  [cfg |-> SubSeq(lfcCfg, 1, first - 1)
                      \o SubSeq(lfcCfg, first + 1, Len(lfcCfg)),
              removed |-> TRUE]
    ELSE [cfg |-> lfcCfg, removed |-> FALSE]

(* mutant of removeRuleByID: the removal counts only when exactly one rule
   went away *)
removeSingleRuleByID(lfcCfg, ilmID) ==
    IF Len(lfcCfg) = 0
    THEN [cfg |-> lfcCfg, removed |-> FALSE]
    ELSE LET kept == Compact(lfcCfg, ilmID, 1, <<>>)
         IN  IF Len(kept) + 1 # Len(lfcCfg)
             THEN [cfg |-> lfcCfg, removed |-> FALSE]
             ELSE [cfg |-> kept, removed |-> TRUE]

removeRuleByID(lfcCfg, ilmID) ==
    IF Len(lfcCfg) = 0
    THEN [cfg |-> lfcCfg, removed |-> FALSE]
    ELSE LET kept == Compact(lfcCfg, ilmID, 1, <<>>)
         IN  IF Len(kept) = Len(lfcCfg)
             THEN [cfg |-> lfcCfg, removed |-> FALSE]
             ELSE [cfg |-> kept, removed |-> TRUE]

(* the search loop of processBucket: index of the first rule whose ID is
   ruleID, 0 when there is none (ourRule == nil) *)
FindOurRule(lc) ==
    IF \E i \in 1..Len(lc) : lc[i].ID = ruleID
    THEN CHOOSE i \in 1..Len(lc) :
            /\ lc[i].ID = ruleID
            /\ \A j \in 1..(i - 1) : lc[j].ID # ruleID
    ELSE 0

(* mutant of Decide: the existing rules are dropped when the managed rule
   has to be written *)
DecideOverwrite(lc) ==
    LET our == FindOurRule(lc) IN
    IF our = 0 \/ ~hasCorrectRule(lc[our])
    THEN [set |-> TRUE, cfg |-> createDefaultLifecycle]
    ELSE [set |-> FALSE, log |-> "already_correct"]

(* mutant of Decide: a rule with the managed identifier is taken as correct
   without looking at its fields *)
DecideTrustID(lc) ==
    LET our == FindOurRule(lc) IN
    IF our = 0
    THEN [set |-> TRUE, cfg |-> Append(lc, createDefaultLifecycle[1])]
    ELSE [set |-> FALSE, log |-> "already_correct"]

(* the decision of processBucket on a configuration that GetBucketLifecycle
   returned: what it logs without a call, or the configuration it passes to
   SetBucketLifecycle *)
Decide(lc) ==
    LET our == FindOurRule(lc) IN
    IF our = 0
    THEN [set |-> TRUE, cfg |-> Append(lc, createDefaultLifecycle[1])]
    ELSE IF ~hasCorrectRule(lc[our])
    THEN LET r == removeRuleByID(lc, ruleID) IN
         IF ~r.removed
         THEN [set |-> FALSE, log |-> "failed_to_remove"]
         ELSE [set |-> TRUE,
               cfg |-> Append(r.cfg, createDefaultLifecycle[1])]
    ELSE [set |-> FALSE, log |-> "already_correct"]

(* mutant of ProcessOutcome: a failed SetBucketLifecycle call is repeated
   once *)
ProcessOutcomeRetry(lc, getErr, setErr) ==
    IF getErr
    THEN [stored |-> lc, calls |-> <<>>, log |-> "error_getting"]
    ELSE IF lc = Absent
    THEN [stored |-> IF setErr THEN lc ELSE createDefaultLifecycle,
          calls |-> IF setErr
                    THEN <<createDefaultLifecycle, createDefaultLifecycle>>
                    ELSE <<createDefaultLifecycle>>,
          log |-> IF setErr THEN "error_setting" ELSE "added"]
    ELSE LET d == Decide(lc) IN
         IF ~d.set
         THEN [stored |-> lc, calls |-> <<>>, log |-> d.log]
         ELSE [stored |-> IF setErr THEN lc ELSE d.cfg,
               calls |-> IF setErr THEN <<d.cfg, d.cfg>> ELSE <<d.cfg>>,
               log |-> IF setErr THEN "error_updating" ELSE "updated"]

(* mutant of ProcessOutcome: a bucket without configuration is only
   reported, as checkSingleBucket does *)
ProcessOutcomeReportAbsent(lc, getErr, setErr) ==
    IF getErr
    THEN [stored |-> lc, calls |-> <<>>, log |-> "error_getting"]
    ELSE IF lc = Absent
    THEN [stored |-> lc, calls |-> <<>>, log |-> "no_lifecycle_policy"]
    ELSE LET d == Decide(lc) IN
         IF ~d.set
         THEN [stored |-> lc, calls |-> <<>>, log |-> d.log]
         ELSE [stored |-> IF setErr THEN lc ELSE d.cfg, calls |-> <<d.cfg>>,
               log |-> IF setErr THEN "error_updating" ELSE "updated"]

(* processBucket on a bucket that stores lc; getErr: GetBucketLifecycle
   fails with another error than NoSuchLifecycleConfiguration; setErr:
   SetBucketLifecycle fails.  The result: the configuration stored
   afterwards, the configurations passed to SetBucketLifecycle, the line
   logged *)
ProcessOutcome(lc, getErr, setErr) ==
    IF getErr
    THEN [stored |-> lc, calls |-> <<>>, log |-> "error_getting"]
    ELSE IF lc = Absent
    THEN [stored |-> IF setErr THEN lc ELSE createDefaultLifecycle,
          calls |-> <<createDefaultLifecycle>>,
          log |-> IF setErr THEN "error_setting" ELSE "added"]
    ELSE LET d == Decide(lc) IN
         IF ~d.set
         THEN [stored |-> lc, calls |-> <<>>, log |-> d.log]
         ELSE [stored |-> IF setErr THEN lc ELSE d.cfg, calls |-> <<d.cfg>>,
               log |-> IF setErr THEN "error_updating" ELSE "updated"]

(* processBucket on the one bucket of SpecApply *)
ProcessBucket(getErr, setErr) ==
    /\ Len(applyLog) < MaxApply
    /\ LET o == ProcessOutcome(lifecycle, getErr, setErr) IN
       /\ lifecycle' = o.stored
       /\ setLog' = setLog \o o.calls
       /\ applyLog' = Append(applyLog, o.log)
    /\ UNCHANGED <<checkLog, listVars>>
    /\ UNCHANGED cleanVars
    /\ UNCHANGED removeVars

(* the line checkSingleBucket prints for a bucket that stores lc *)
CheckLine(lc, getErr) ==
    IF getErr THEN "error_checking"
    ELSE IF lc = Absent THEN "no_lifecycle_policy"
    ELSE IF hasCorrectPolicy(lc) THEN "correct_policy_exists"
    ELSE "not_configured_properly"

(* checkSingleBucket: reads the configuration and prints its verdict *)
CheckSingleBucket(getErr) ==
    /\ Len(checkLog) < MaxCheck
    /\ checkLog' = Append(checkLog, CheckLine(lifecycle, getErr))
    /\ UNCHANGED <<lifecycle, setLog, applyLog, listVars>>
    /\ UNCHANGED cleanVars
    /\ UNCHANGED removeVars

InitApply ==
    /\ InitRun(<<>>, 0, FALSE)
    /\ reports = <<>>
    /\ InitLoopIdle
    /\ lifecycle \in RuleSets \cup {Absent}
    /\ setLog = <<>>
    /\ applyLog = <<>>
    /\ checkLog = <<>>
    /\ InitListIdle
    /\ InitRemoveIdle

NextApply ==
    \/ \E getErr \in BOOLEAN, setErr \in BOOLEAN : ProcessBucket(getErr, setErr)
    \/ \E getErr \in BOOLEAN : CheckSingleBucket(getErr)

SpecApply == InitApply /\ [][NextApply]_vars

(***************************************************************************)
(* hasCorrectPolicy as a function of the configuration: the inputs are all *)
(* rule sets over both identifiers and every combination of the four       *)
(* fields the test reads, a field left unset in the Go literal being its   *)
(* zero value (0, false).                                                  *)
(***************************************************************************)
PolicyRulePool ==
    {Rule(id, status, days, newer, marker) :
        id \in RuleIDs, status \in {"Enabled", "Disabled"}, days \in {1, 2},
        newer \in {0, 1}, marker \in BOOLEAN}

PolicyInputs ==
    UNION {[1..n -> PolicyRulePool] : n \in 1..MaxPolicyRules}

InitPolicy ==
    /\ InitRun(<<>>, 0, FALSE)
    /\ reports = <<>>
    /\ InitLoopIdle
    /\ lifecycle \in PolicyInputs
    /\ setLog = <<>>
    /\ applyLog = <<>>
    /\ checkLog = <<>>
    /\ InitListIdle
    /\ InitRemoveIdle

NextPolicy == \E getErr \in BOOLEAN : CheckSingleBucket(getErr)

SpecPolicy == InitPolicy /\ [][NextPolicy]_vars

(***************************************************************************)
(* applyLifecycle: with -bucket, BucketExists and one processBucket call;  *)
(* without, ListBuckets and a processBucket call for each bucket in turn.  *)
(* Bucket b of the ListBuckets answer stores stores[b].                    *)
(***************************************************************************)
StoreConfigs == {Absent} \cup [1..1 -> RulePool]

StoreSets == UNION {[1..n -> StoreConfigs] : n \in 0..MaxBuckets}

(* processBucket(client, b): the calls and the log line are recorded with
   the bucket they are for *)
ProcessStored(b, getErr, setErr) ==
    LET o == ProcessOutcome(stores[b], getErr, setErr) IN
    /\ stores' = [stores EXCEPT ![b] = o.stored]
    /\ setCalls' = setCalls
          \o [i \in 1..Len(o.calls) |-> [bucket |-> b, cfg |-> o.calls[i]]]
    /\ bucketLog' = Append(bucketLog, [bucket |-> b, line |-> o.log])

(* the branch `bucketName != ""`; exists: what bucketExists returns *)
ApplyFiltered(exists, getErr, setErr) ==
    /\ pcApply = "start"
    /\ bucketName # 0
    /\ IF ~exists
       THEN /\ pcApply' = "fatal"
            /\ UNCHANGED <<stores, setCalls, bucketLog>>
       ELSE /\ ProcessStored(bucketName, getErr, setErr)
            /\ pcApply' = "done"
    /\ UNCHANGED <<bucketName, applyPos>>
    /\ UNCHANGED <<lifecycle, setLog, applyLog, checkLog>>
    /\ UNCHANGED cleanVars
    /\ UNCHANGED removeVars

(* ListBuckets; listErr: it fails and log.Fatalf ends the process *)
ApplyListBuckets(listErr) ==
    /\ pcApply = "start"
    /\ bucketName = 0
    /\ pcApply' = IF listErr THEN "fatal" ELSE "loop"
    /\ UNCHANGED <<stores, bucketName, applyPos, setCalls, bucketLog>>
    /\ UNCHANGED <<lifecycle, setLog, applyLog, checkLog>>
    /\ UNCHANGED cleanVars
    /\ UNCHANGED removeVars

(* one iteration of `for _, bucket := range buckets` *)
ApplyLoopStep(getErr, setErr) ==
    /\ pcApply = "loop"
    /\ applyPos < Len(stores)
    /\ ProcessStored(applyPos + 1, getErr, setErr)
    /\ applyPos' = applyPos + 1
    /\ UNCHANGED <<bucketName, pcApply>>
    /\ UNCHANGED <<lifecycle, setLog, applyLog, checkLog>>
    /\ UNCHANGED cleanVars
    /\ UNCHANGED removeVars

(* the range is exhausted: applyLifecycle returns *)
ApplyLoopEnd ==
    /\ pcApply = "loop"
    /\ applyPos = Len(stores)
    /\ pcApply' = "done"
    /\ UNCHANGED <<stores, bucketName, applyPos, setCalls, bucketLog>>
    /\ UNCHANGED <<lifecycle, setLog, applyLog, checkLog>>
    /\ UNCHANGED cleanVars
    /\ UNCHANGED removeVars

InitApplyAll ==
    /\ InitRun(<<>>, 0, FALSE)
    /\ reports = <<>>
    /\ InitLoopIdle
    /\ lifecycle = Absent
    /\ setLog = <<>>
    /\ applyLog = <<>>
    /\ checkLog = <<>>
    /\ stores \in StoreSets
    /\ bucketName \in 0..Len(stores)
    /\ pcApply = "start"
    /\ applyPos = 0
    /\ setCalls = <<>>
    /\ bucketLog = <<>>
    /\ InitRemoveIdle

NextApplyAll ==
    \/ \E exists \in BOOLEAN, getErr \in BOOLEAN, setErr \in BOOLEAN :
          ApplyFiltered(exists, getErr, setErr)
    \/ \E listErr \in BOOLEAN : ApplyListBuckets(listErr)
    \/ \E getErr \in BOOLEAN, setErr \in BOOLEAN : ApplyLoopStep(getErr, setErr)
    \/ ApplyLoopEnd

SpecApplyAll == InitApplyAll /\ [][NextApplyAll]_vars

(***************************************************************************)
(* checkLifecycle: with -bucket one checkSingleBucket call; without,       *)
(* ListBuckets and a checkSingleBucket call for each bucket in turn.  The  *)
(* command starts in the states applyLifecycle starts in.                  *)
(***************************************************************************)
(* mutant of CheckStored: the check repairs what it finds, as processBucket
   does *)
CheckStoredRepairs(b, getErr) ==
    /\ checkLog' = Append(checkLog, CheckLine(stores[b], getErr))
    /\ ProcessStored(b, getErr, FALSE)

(* checkSingleBucket(client, b) *)
CheckStored(b, getErr) ==
    /\ checkLog' = Append(checkLog, CheckLine(stores[b], getErr))
    /\ UNCHANGED <<stores, setCalls, bucketLog>>

(* the branch `bucketName != ""` *)
CheckFiltered(getErr) ==
    /\ pcApply = "start"
    /\ bucketName # 0
    /\ CheckStored(bucketName, getErr)
    /\ pcApply' = "done"
    /\ UNCHANGED <<bucketName, applyPos>>
    /\ UNCHANGED <<lifecycle, setLog, applyLog>>
    /\ UNCHANGED cleanVars
    /\ UNCHANGED removeVars

(* ListBuckets; listErr: it fails and log.Fatalf ends the process *)
CheckListBuckets(listErr) ==
    /\ pcApply = "start"
    /\ bucketName = 0
    /\ pcApply' = IF listErr THEN "fatal" ELSE "loop"
    /\ UNCHANGED <<stores, bucketName, applyPos, setCalls, bucketLog>>
    /\ UNCHANGED <<lifecycle, setLog, applyLog, checkLog>>
    /\ UNCHANGED cleanVars
    /\ UNCHANGED removeVars

(* one iteration of `for _, bucket := range buckets` *)
CheckLoopStep(getErr) ==
    /\ pcApply = "loop"
    /\ applyPos < Len(stores)
    /\ CheckStored(applyPos + 1, getErr)
    /\ applyPos' = applyPos + 1
    /\ UNCHANGED <<bucketName, pcApply>>
    /\ UNCHANGED <<lifecycle, setLog, applyLog>>
    /\ UNCHANGED cleanVars
    /\ UNCHANGED removeVars

(* the range is exhausted: checkLifecycle returns *)
CheckLoopEnd ==
    /\ pcApply = "loop"
    /\ applyPos = Len(stores)
    /\ pcApply' = "done"
    /\ UNCHANGED <<stores, bucketName, applyPos, setCalls, bucketLog>>
    /\ UNCHANGED <<lifecycle, setLog, applyLog, checkLog>>
    /\ UNCHANGED cleanVars
    /\ UNCHANGED removeVars

NextCheckAll ==
    \/ \E getErr \in BOOLEAN : CheckFiltered(getErr)
    \/ \E listErr \in BOOLEAN : CheckListBuckets(listErr)
    \/ \E getErr \in BOOLEAN : CheckLoopStep(getErr)
    \/ CheckLoopEnd

SpecCheckAll == InitApplyAll /\ [][NextCheckAll]_vars

(***************************************************************************)
(* removeRuleByID as a function of its two arguments, on the pointer it    *)
(* is given: the survivors are written over the front of the Rules slice   *)
(* while the range loop reads it, then the slice is cut to the survivors.  *)
(***************************************************************************)
(* `for _, rule := range lfcCfg.Rules`: rules is the slice as written so
   far, i the position the range reads next, n the survivors written *)
RECURSIVE CompactInPlace(_, _, _, _)
CompactInPlace(rules, ilmID, i, n) ==
    IF i > Len(rules) THEN [Rules |-> rules, n |-> n]
    ELSE LET rule == rules[i] IN
         IF rule.ID # ilmID
         THEN CompactInPlace([rules EXCEPT ![n + 1] = rule], ilmID, i + 1, n + 1)
         ELSE CompactInPlace(rules, ilmID, i + 1, n)

(* mutant of removeRuleByIDPtr: the slice is not cut to the survivors *)
removeRuleByIDUncut(lfcCfg, ilmID) ==
    IF lfcCfg.isNil \/ Len(lfcCfg.Rules) = 0
    THEN [cfg |-> lfcCfg, removed |-> FALSE]
    ELSE LET c == CompactInPlace(lfcCfg.Rules, ilmID, 1, 0) IN
         IF c.n = Len(lfcCfg.Rules)
         THEN [cfg |-> Cfg(c.Rules), removed |-> FALSE]
         ELSE [cfg |-> Cfg(c.Rules), removed |-> TRUE]

(* removeRuleByID(lfcCfg, ilmID) on a pointer: the configuration the
   returned pointer leads to, and the flag *)
removeRuleByIDPtr(lfcCfg, ilmID) ==
    IF lfcCfg.isNil \/ Len(lfcCfg.Rules) = 0
    THEN [cfg |-> lfcCfg, removed |-> FALSE]
    ELSE LET c == CompactInPlace(lfcCfg.Rules, ilmID, 1, 0) IN
         IF c.n = Len(lfcCfg.Rules)
         THEN [cfg |-> Cfg(c.Rules), removed |-> FALSE]
         ELSE [cfg |-> Cfg(SubSeq(c.Rules, 1, c.n)), removed |-> TRUE]

(* the configurations and identifiers removeRuleByID is called with: nil,
   no rule, every rule set; the managed, a foreign and an unused identifier *)
RemoveConfigs == {NilCfg, Cfg(<<>>)} \cup {Cfg(rules) : rules \in RuleSets}
RemoveIDs == RuleIDs \cup {"unused-rule"}

(* the call *)
RemoveCall ==
    /\ ~removeRet.called
    /\ LET r == removeRuleByIDPtr(removeArgs.cfg, removeArgs.id) IN
       removeRet' = [called |-> TRUE, cfg |-> r.cfg, removed |-> r.removed]
    /\ UNCHANGED removeArgs
    /\ UNCHANGED <<lifecycle, setLog, applyLog, checkLog, listVars>>
    /\ UNCHANGED cleanVars

InitRemove ==
    /\ InitRun(<<>>, 0, FALSE)
    /\ reports = <<>>
    /\ InitLoopIdle
    /\ lifecycle = Absent
    /\ setLog = <<>>
    /\ applyLog = <<>>
    /\ checkLog = <<>>
    /\ InitListIdle
    /\ removeArgs \in [cfg : RemoveConfigs, id : RemoveIDs]
    /\ removeRet = NoRet

NextRemove == RemoveCall

SpecRemove == InitRemove /\ [][NextRemove]_vars

(***************************************************************************)
(* Properties of the reconciliation.                                       *)
(***************************************************************************)
Last(s) == s[Len(s)]
Canonical(r) ==
    /\ r.Status = "Enabled"
    /\ r.NoncurrentDays = 1
    /\ r.NewerNoncurrentVersions = 1
    /\ r.DeleteMarker = TRUE
ManagedRule ==
    [ID |-> "auto-clean-versions", Status |-> "Enabled", NoncurrentDays |-> 1,
     NewerNoncurrentVersions |-> 1, DeleteMarker |-> TRUE]
Unrelated(r) == r.ID # "auto-clean-versions"
CanonicalCount(lc) == Cardinality({i \in 1..Len(lc) : Canonical(lc[i])})
(* this step is a processBucket call in which GetBucketLifecycle answered *)
Reconciled == applyLog' # applyLog /\ Last(applyLog') # "error_getting"
Applied == applyLog # <<>> /\ Last(applyLog) \in {"added", "updated", "already_correct"}

(* C6: reconciliation is idempotent -- once processBucket has completed on
   a bucket (policy added, updated or found correct), another processBucket
   call leaves the stored configuration as it is and makes no
   SetBucketLifecycle call. *)
ReconcileIdempotent ==
    [][(Applied /\ applyLog' # applyLog)
          => (lifecycle' = lifecycle /\ setLog' = setLog)]_vars

(* C6 witness: a second call found the policy correct after the first call
   replaced a managed rule between other rules *)
ReconcileIdempotentWitness ==
    /\ applyLog = <<"updated", "already_correct">>
    /\ Len(setLog) = 1
    /\ Len(lifecycle) >= 2

(* C7 as stated: for a rule set of N rules none of which has the managed
   identifier, the reconciled configuration holds those N rules unchanged
   and in order, and exactly one canonical rule. *)
NonDestructiveOneCanonical ==
    [][(lifecycle # Absent /\ (\A i \in 1..Len(lifecycle) : Unrelated(lifecycle[i]))
        /\ Reconciled)
          => /\ SelectSeq(Last(setLog'), Unrelated) = lifecycle
             /\ CanonicalCount(Last(setLog')) = 1]_vars

(* C7 amended: for a rule set of N rules none of which has the managed
   identifier, processBucket passes to SetBucketLifecycle, and on success
   stores, exactly those N rules unchanged and in order followed by exactly
   one rule with the managed identifier, which is canonical. *)
NonDestructiveAppend ==
    [][(lifecycle # Absent /\ (\A i \in 1..Len(lifecycle) : Unrelated(lifecycle[i]))
        /\ Reconciled)
          => /\ setLog' = Append(setLog, Append(lifecycle, ManagedRule))
             /\ Last(applyLog') = "updated" => lifecycle' = Append(lifecycle, ManagedRule)
             /\ Last(applyLog') # "updated" => lifecycle' = lifecycle]_vars

(* C7 witness: the managed rule was appended to a full set of unrelated
   rules, two of which differ *)
NonDestructiveAppendWitness ==
    /\ applyLog = <<"updated">>
    /\ Len(lifecycle) = MaxRules + 1
    /\ lifecycle[1] # lifecycle[2]
    /\ lifecycle[Len(lifecycle)] = ManagedRule

(* C8: when the rule set holds a canonical rule, under whatever identifier,
   processBucket leaves the rule set unmodified and makes no
   SetBucketLifecycle call. *)
CanonicalMeansNoChange ==
    [][(lifecycle # Absent /\ (\E i \in 1..Len(lifecycle) : Canonical(lifecycle[i]))
        /\ applyLog' # applyLog)
          => (lifecycle' = lifecycle /\ setLog' = setLog)]_vars

(* the same, when the first rule with the managed identifier is the
   canonical one *)
ManagedCanonicalMeansNoChange ==
    [][(lifecycle # Absent /\ FindOurRule(lifecycle) # 0
        /\ Canonical(lifecycle[FindOurRule(lifecycle)])
        /\ applyLog' # applyLog)
          => (lifecycle' = lifecycle /\ setLog' = setLog)]_vars

(* C9: on a bucket without lifecycle configuration processBucket passes to
   SetBucketLifecycle, and on success stores, a configuration of exactly
   one rule: identifier auto-clean-versions, Enabled, non-current
   expiration 1 day, 1 newest non-current version kept, delete markers
   removed. *)
AbsentCreatesManagedRule ==
    [][(lifecycle = Absent /\ Reconciled)
          => /\ setLog' = Append(setLog, <<ManagedRule>>)
             /\ Last(applyLog') = "added" => lifecycle' = <<ManagedRule>>]_vars

(* C9 witness: the policy was added to a bucket that had none *)
AbsentCreatesManagedRuleWitness ==
    /\ applyLog = <<"added">>
    /\ setLog = <<lifecycle>>
    /\ Len(lifecycle) = 1

(* C10: hasCorrectPolicy, as checkSingleBucket reports it, is true exactly
   when some rule of the set is Enabled with non-current expiration 1 day,
   1 newest version kept and delete-marker removal, whatever the rule's
   identifier and position. *)
EvaluateIffSomeCanonical ==
    [][(checkLog' # checkLog /\ lifecycle # Absent
        /\ Last(checkLog') # "error_checking")
          => (Last(checkLog') = "correct_policy_exists"
                <=> \E i \in 1..Len(lifecycle) : Canonical(lifecycle[i]))]_vars

(* C10 witness: the check accepted a set whose only canonical rule is the
   last one and has a foreign identifier, and rejected nothing else *)
EvaluateIffSomeCanonicalWitness ==
    /\ checkLog = <<"correct_policy_exists">>
    /\ applyLog = <<>>
    /\ Len(lifecycle) = MaxRules
    /\ Canonical(lifecycle[MaxRules]) /\ Unrelated(lifecycle[MaxRules])
    /\ \A i \in 1..(MaxRules - 1) : ~Canonical(lifecycle[i])

(* the two configurations of TestHasCorrectPolicy: one managed rule,
   Enabled, NoncurrentDays given, the other fields left unset *)
TestPolicyOneDay == <<Rule("auto-clean-versions", "Enabled", 1, 0, FALSE)>>
TestPolicyTwoDays == <<Rule("auto-clean-versions", "Enabled", 2, 0, FALSE)>>
Checked == checkLog # <<>> /\ Last(checkLog) # "error_checking"

(* C11: hasCorrectPolicy, as checkSingleBucket reports it, accepts the
   configuration whose single rule is Enabled with NoncurrentDays 1 and the
   retained-newest count and delete-marker fields unset, and rejects the
   same configuration with NoncurrentDays 2. *)
TestHasCorrectPolicy ==
    Checked =>
        /\ lifecycle = TestPolicyOneDay
              => Last(checkLog) = "correct_policy_exists"
        /\ lifecycle = TestPolicyTwoDays
              => Last(checkLog) = "not_configured_properly"

(* the half of C11 that the later revision keeps: two days are rejected *)
TestPolicyTwoDaysRejected ==
    (Checked /\ lifecycle = TestPolicyTwoDays)
        => Last(checkLog) = "not_configured_properly"

(* C12: replacement edit -- on a rule set without canonical rule
   processBucket passes to SetBucketLifecycle, and on success stores, the
   input rules whose identifier is not the managed one, in their original
   order, followed by the canonical managed rule: one rule with the managed
   identifier, last, every input rule with that identifier gone, length =
   number of other rules + 1. *)
ReplacementEdit ==
    [][(lifecycle # Absent /\ CanonicalCount(lifecycle) = 0 /\ Reconciled)
          => LET out == Append(SelectSeq(lifecycle, Unrelated), ManagedRule) IN
             /\ setLog' = Append(setLog, out)
             /\ Last(applyLog') \in {"updated", "error_updating"}
             /\ Last(applyLog') = "updated" => lifecycle' = out
             /\ Len(out) =
                  Cardinality({i \in 1..Len(lifecycle) : Unrelated(lifecycle[i])}) + 1
             /\ \A i \in 1..(Len(out) - 1) : out[i].ID # ruleID]_vars

(* C12 witness: the check found no canonical rule, then the edit left one
   foreign non-canonical rule followed by the managed rule *)
ReplacementEditWitness ==
    /\ checkLog = <<"not_configured_properly">>
    /\ applyLog = <<"updated">>
    /\ Len(lifecycle) = 2
    /\ Unrelated(lifecycle[1]) /\ ~Canonical(lifecycle[1])
    /\ lifecycle[2] = ManagedRule

(* C13: after a processBucket call in which every storage call succeeded
   (policy added, updated or found correct) the stored configuration
   satisfies hasCorrectPolicy, whatever the configuration was before. *)
ProcessedBucketHasCorrectPolicy ==
    Applied => /\ lifecycle # Absent
               /\ \E i \in 1..Len(lifecycle) : Canonical(lifecycle[i])

(* C13 witness: a full rule set without canonical rule was updated *)
ProcessedBucketHasCorrectPolicyWitness ==
    /\ checkLog = <<"not_configured_properly">>
    /\ applyLog = <<"updated">>
    /\ Len(lifecycle) = MaxRules
    /\ CanonicalCount(lifecycle) = 1

(* the SetBucketLifecycle calls made for bucket b *)
SetCallsFor(b) == {i \in 1..Len(setCalls) : setCalls[i].bucket = b}

(* C14: applyLifecycle without -bucket processes every bucket ListBuckets
   returned, each once and in order, and makes exactly one
   SetBucketLifecycle call, with the default configuration, for each
   bucket whose GetBucketLifecycle answered that there is none; when all k
   buckets are such, it makes exactly k calls. *)
ApplySetsOncePerAbsentBucket ==
    /\ []((pcApply = "done" /\ bucketName = 0)
            => /\ [i \in 1..Len(bucketLog) |-> bucketLog[i].bucket]
                    = [i \in 1..Len(stores) |-> i]
               /\ (\A b \in 1..Len(stores) :
                      bucketLog[b].line \in {"added", "error_setting"})
                    => Len(setCalls) = Len(stores))
    /\ [][(pcApply = "loop" /\ bucketLog' # bucketLog
           /\ stores[applyPos + 1] = Absent
           /\ Last(bucketLog').line # "error_getting")
             => /\ setCalls' = Append(setCalls,
                       [bucket |-> applyPos + 1,
                        cfg |-> <<ManagedRule>>])
                /\ SetCallsFor(applyPos + 1) = {}]_vars

(* C14 witness: the policy was added to every one of MaxBuckets buckets *)
ApplySetsOncePerAbsentBucketWitness ==
    /\ pcApply = "done"
    /\ bucketName = 0
    /\ Len(stores) = MaxBuckets
    /\ Len(setCalls) = MaxBuckets
    /\ \A b \in 1..MaxBuckets :
          bucketLog[b].line = "added" /\ Cardinality(SetCallsFor(b)) = 1

(* C15: no deadlock on quota -- with more non-current records in the
   listing than the quota, in dry-run and in real-run, once processedCount
   has reached the quota the run is never stuck while the deadline has not
   fired: it has ended (all three goroutines returned and wg.Wait()
   returned) or some goroutine or RemoveObjects can take a step. *)
QuotaReachedNeverStuck ==
    (/\ Len(Prunables(listing)) > maxObjectsPerRun
     /\ processedCount >= maxObjectsPerRun
     /\ ~ctxDone)
        => (pcMain = "done" \/ ENABLED Progress)

(* the same, for quotas of at least one *)
QuotaReachedNeverStuckPositive ==
    (/\ maxObjectsPerRun >= 1
     /\ Len(Prunables(listing)) > maxObjectsPerRun
     /\ processedCount >= maxObjectsPerRun
     /\ ~ctxDone)
        => (pcMain = "done" \/ ENABLED Progress)

(* with a quota of at least one, and for every real run, the run ends
   without the deadline *)
TerminatesWithoutDeadline ==
    (maxObjectsPerRun >= 1 \/ ~dryRun) => <>(pcMain = "done")

(* C16: a real run whose selection goroutine was stopped by the deadline
   (`case <-ctx.Done(): return`) is not reported as a successful run. *)
DeadlineNeverReportedClean ==
    (RunEnded /\ ~dryRun /\ pcProd = "timeout")
        => report # "successfully_deleted"

(* the same, for quotas of at least one *)
DeadlineNeverReportedCleanPositive ==
    (RunEnded /\ ~dryRun /\ pcProd = "timeout" /\ maxObjectsPerRun >= 1)
        => report # "successfully_deleted"

(* C17: a run that ends with processedCount equal to the quota, the
   deadline not having fired, has logged 'Reached limit', and the line is
   logged only in runs where the quota-th enqueue succeeded. *)
ReachedLimitIffQuotaSelected ==
    (RunEnded /\ ~ctxDone)
        => (pcProd = "limit" <=> processedCount = maxObjectsPerRun)

(* what the code does for every quota: 'Reached limit' is logged exactly
   when an enqueue succeeded and left processedCount at or above the quota;
   for a quota of at least one that is exactly when processedCount equals
   the quota. *)
ReachedLimitIffEnqueueFilledQuota ==
    /\ pcProd = "limit"
          <=> (processedCount >= 1 /\ processedCount >= maxObjectsPerRun)
    /\ maxObjectsPerRun >= 1
          => (pcProd = "limit" <=> processedCount = maxObjectsPerRun)

(* versions the run has deleted from the bucket *)
Removed == {listing[i].VersionID : i \in 1..Len(listing)} \ versions

(* C18 as stated: a real run whose quota is at least the number of
   non-current records, whose deadline did not fire and in which
   RemoveObjects reported no failure, ends with totalCount = length of the
   listing, processedCount = versions deleted = number of non-current
   records, and the success line. *)
CleanRunQuotaAtLeast ==
    (/\ RunEnded /\ ~dryRun /\ ~ctxDone /\ failures = <<>>
     /\ maxObjectsPerRun >= Len(Prunables(listing)))
        => /\ totalCount = Len(listing)
           /\ processedCount = Len(Prunables(listing))
           /\ Cardinality(Removed) = Len(Prunables(listing))
           /\ report = "successfully_deleted"

(* C18 amended: the same for a quota greater than the number of
   non-current records. *)
CleanRun ==
    (/\ RunEnded /\ ~dryRun /\ ~ctxDone /\ failures = <<>>
     /\ maxObjectsPerRun > Len(Prunables(listing)))
        => /\ totalCount = Len(listing)
           /\ processedCount = Len(Prunables(listing))
           /\ Removed = {Prunables(listing)[i].VersionID :
                            i \in 1..Len(Prunables(listing))}
           /\ report = "successfully_deleted"

(* C18 witness: a clean run deleted two non-current versions and read the
   current version that follows them *)
CleanRunWitness ==
    /\ RunEnded /\ ~dryRun /\ ~ctxDone /\ failures = <<>>
    /\ Len(Prunables(listing)) = 2
    /\ maxObjectsPerRun > 2
    /\ listing[Len(listing)].IsLatest
    /\ totalCount = Len(listing)
    /\ Cardinality(Removed) = 2
    /\ report = "successfully_deleted"

(* C19: the number of versions a run reports as deleted ('Successfully
   deleted N versions', N = processedCount) never exceeds the number of
   records RemoveObjects received and did not report as failed; records
   enqueued but not received when the deadline fired are not counted. *)
ReportedDeletedWereConsumed ==
    (RunEnded /\ report = "successfully_deleted")
        => processedCount <= Len(handed) - Len(failures)

(* the same for runs whose deadline did not fire: every record counted was
   received and deleted *)
ReportedDeletedWereConsumedNoDeadline ==
    (RunEnded /\ report = "successfully_deleted" /\ ~ctxDone)
        => /\ processedCount = Len(handed)
           /\ processedCount = Cardinality(Removed)

(* the failure records RemoveObjects has emitted, in emission order: one
   for every record it answered without deleting the version *)
EmittedFailures ==
    LET failed == SelectSeq(SubSeq(handed, 1, nResolved), StillStored)
    IN  [i \in 1..Len(failed) |-> [VersionID |-> failed[i].VersionID]]

(* the failure records on their way to the log *)
FailuresInFlight ==
    (IF fwdErr # NoErr THEN <<fwdErr>> ELSE <<>>) \o remErrCh

(* C20: per-object failure isolation -- every failure record RemoveObjects
   emits is logged once and in emission order (none is lost or reordered
   on the way, none is left when the run ends); a failure does not stop
   the run: a real run is never stuck, and when it ends without the
   deadline every selected record was received and answered; a real run
   ends with 'Clean completed with errors' exactly when a failure record
   was emitted. *)
FailureIsolation ==
    /\ failures \o FailuresInFlight = EmittedFailures
    /\ RunEnded => failures = EmittedFailures
    /\ ~dryRun => (pcMain = "done" \/ ENABLED Progress)
    /\ (RunEnded /\ ~dryRun /\ ~ctxDone)
          => (removeObjectsCh = <<>> /\ nResolved = Len(handed))
    /\ (RunEnded /\ ~dryRun)
          => (report = "completed_with_errors" <=> EmittedFailures # <<>>)
    /\ hasErrors <=> failures # <<>>

(* C20 witness: a run without deadline logged a failure, deleted a version
   selected after the failed one and ended with errors *)
FailureIsolationWitness ==
    /\ RunEnded /\ ~dryRun /\ ~ctxDone
    /\ Len(failures) >= 1
    /\ \E v \in Removed : v > failures[1].VersionID
    /\ report = "completed_with_errors"

(* C21: scan stops at quota -- with a quota Q >= 1, a listing holding at
   least Q non-current records and no deadline, the selection goroutine
   reads no record after the Q-th non-current one, and the run ends with
   totalCount equal to the position of that record in the listing (a
   record's VersionID is its position). *)
ScanStopsAtQuota ==
    (/\ maxObjectsPerRun >= 1
     /\ Len(Prunables(listing)) >= maxObjectsPerRun
     /\ ~ctxDone)
        => LET pos == Prunables(listing)[maxObjectsPerRun].VersionID IN
           /\ objIdx <= pos
           /\ totalCount <= pos
           /\ RunEnded => (totalCount = pos /\ objIdx = pos)

(* C21 witness: a run without deadline stopped at its limit after reading a
   current version, with records of the listing left unread *)
ScanStopsAtQuotaWitness ==
    /\ RunEnded /\ ~ctxDone
    /\ pcProd = "limit"
    /\ maxObjectsPerRun >= 1
    /\ totalCount > processedCount
    /\ totalCount < Len(listing)

(* C22: deadline pre-emption of enqueue -- once the context has expired no
   step of the run enqueues a record: processedCount and the records
   placed on removeObjectsCh stay as they are. *)
NoEnqueueAfterDeadline ==
    [][ctxDone => (processedCount' = processedCount /\ Selected' = Selected)]_vars

(* what the select does guarantee: a send that cannot proceed is given up
   once the context has expired -- the selection goroutine is never left
   waiting in its select after the deadline *)
BlockedEnqueueIsPreempted ==
    (ctxDone /\ pcProd = "select") => ENABLED ProdTimeout

(* C23: cancellation liveness -- once the context has expired the
   selection goroutine, the deletion goroutine and the collecting goroutine
   return and wg.Wait() returns, also when the selection goroutine was
   waiting for the next record of a listing that has not ended. *)
DeadlineLeadsToReturn ==
    ctxDone ~> (pcMain = "done")

(* C23 witness: the run returned after the deadline ended a scan that had
   records left to read *)
DeadlineLeadsToReturnWitness ==
    /\ RunEnded
    /\ ctxDone
    /\ pcProd = "eof"
    /\ objIdx < Len(listing)

(* C24: storage failures are fail-fast and never retried -- a
   processBucket call whose GetBucketLifecycle failed (with another error
   than the absent configuration) makes no SetBucketLifecycle call and
   leaves the stored configuration alone; every processBucket call makes at
   most one SetBucketLifecycle call, exactly one when that call fails, and
   a failed call stores nothing. *)
FailFastNoRetry ==
    [][applyLog' # applyLog
         => /\ Len(setLog') <= Len(setLog) + 1
            /\ Last(applyLog') = "error_getting"
                  => (setLog' = setLog /\ lifecycle' = lifecycle)
            /\ Last(applyLog') \in {"error_setting", "error_updating"}
                  => (Len(setLog') = Len(setLog) + 1 /\ lifecycle' = lifecycle)]_vars

(* C24 witness: a call whose SetBucketLifecycle failed was followed by a
   call whose GetBucketLifecycle failed; one call was made in all *)
FailFastNoRetryWitness ==
    /\ applyLog = <<"error_updating", "error_getting">>
    /\ Len(setLog) = 1
    /\ CanonicalCount(lifecycle) = 0

(* C25: bucket runs are independent -- in a clean over several buckets,
   the run of a bucket that follows other buckets' runs (whatever their
   final lines) starts with totalCount = processedCount = 0, an empty
   channel and a context that has not expired; its processedCount never
   exceeds the quota, and when it ends without its deadline its selected
   records are the first min(quota, number of non-current records)
   non-current records of its own listing. *)
BucketRunsIndependent ==
    /\ [](Len(reports) >= 1
            => /\ pcMain = "start"
                    => (totalCount = 0 /\ processedCount = 0 /\ Selected = <<>>)
               /\ processedCount <= maxObjectsPerRun
               /\ (RunEnded /\ ~ctxDone)
                    => Selected = FirstN(Prunables(listing), maxObjectsPerRun))
    /\ [][(pcMain # "start" /\ pcMain' = "start") => ~ctxDone']_vars

(* the same, for quotas of at least one *)
BucketRunsIndependentPositive ==
    /\ []((Len(reports) >= 1 /\ maxObjectsPerRun >= 1)
            => /\ pcMain = "start"
                    => (totalCount = 0 /\ processedCount = 0 /\ Selected = <<>>)
               /\ processedCount <= maxObjectsPerRun
               /\ (RunEnded /\ ~ctxDone)
                    => Selected = FirstN(Prunables(listing), maxObjectsPerRun))
    /\ [][(pcMain # "start" /\ pcMain' = "start") => ~ctxDone']_vars

(* current versions among the first n records of the listing *)
CurrentRead(n) == Cardinality({i \in 1..n : listing[i].IsLatest})

(* C26: counter consistency -- in every reachable state of a clean run
   processedCount <= totalCount, totalCount is the number of records read
   from the listing (current and non-current, each once), and totalCount -
   processedCount is at least the number of current versions read. *)
CounterConsistency ==
    /\ processedCount <= totalCount
    /\ totalCount = objIdx
    /\ totalCount <= Len(listing)
    /\ processedCount + CurrentRead(objIdx) <= totalCount
    /\ processedCount = Len(Selected)

(* C26 witness: in the middle of a run three records have been read, one
   of them current, and one has been enqueued *)
CounterConsistencyWitness ==
    /\ pcMain = "wait"
    /\ objIdx = 3
    /\ CurrentRead(objIdx) = 1
    /\ processedCount = 1
    /\ pcProd = "select"

(* C27: queue bound -- removeObjectsCh never holds more than quota
   records; for a quota of at least one the selection goroutine attempts at
   most quota sends, so whenever it is in its select the channel has room
   and the send can proceed, in dry-run (where nothing receives) as well. *)
QueueBound ==
    /\ Len(removeObjectsCh) <= maxObjectsPerRun
    /\ maxObjectsPerRun >= 1
          => /\ processedCount <= maxObjectsPerRun
             /\ pcProd = "select"
                   => /\ processedCount < maxObjectsPerRun
                      /\ CanBuffer
                      /\ ENABLED ProdSend

(* C27 witness: a dry run filled the channel to its capacity of two and
   stopped at the limit, the deadline not having fired *)
QueueBoundWitness ==
    /\ dryRun
    /\ ~ctxDone
    /\ maxObjectsPerRun = 2
    /\ Len(removeObjectsCh) = 2
    /\ pcProd = "limit"

(* C28: the check command is read-only -- checkLifecycle and
   checkSingleBucket make no SetBucketLifecycle call and no RemoveObjects
   call and leave every bucket's stored configuration and versions as they
   are, for every bucket list, every stored configuration and every error
   of GetBucketLifecycle or ListBuckets. *)
CheckIsReadOnly ==
    /\ [](/\ setCalls = <<>>
          /\ setLog = <<>>
          /\ pcRem = "idle"
          /\ handed = <<>>)
    /\ [][stores' = stores /\ lifecycle' = lifecycle /\ versions' = versions]_vars

(* C28 witness: the check went through MaxBuckets buckets, one of them
   without configuration, and met a GetBucketLifecycle error *)
CheckIsReadOnlyWitness ==
    /\ pcApply = "done"
    /\ bucketName = 0
    /\ Len(checkLog) = MaxBuckets
    /\ stores[1] = Absent
    /\ checkLog[1] = "no_lifecycle_policy"
    /\ checkLog[MaxBuckets] = "error_checking"

(* the configuration holds a rule with the managed identifier and the first
   such rule is not the canonical one *)
ManagedFoundIncorrect(lc) ==
    /\ lc # Absent
    /\ \E i \in 1..Len(lc) :
          /\ lc[i].ID = ruleID
          /\ \A j \in 1..(i - 1) : lc[j].ID # ruleID
          /\ ~Canonical(lc[i])

(* C30: the "Failed to remove existing rule" branch of processBucket is
   unreachable -- removeRuleByID reports removed = true on every
   configuration that holds a rule with the managed identifier, no
   processBucket call logs that line, and a call that found the managed
   rule incorrect makes one SetBucketLifecycle call. *)
FailedToRemoveUnreachable ==
    /\ []((lifecycle # Absent /\ \E i \in 1..Len(lifecycle) : lifecycle[i].ID = ruleID)
            => removeRuleByID(lifecycle, ruleID).removed)
    /\ [][applyLog' # applyLog
            => /\ Last(applyLog') # "failed_to_remove"
               /\ (ManagedFoundIncorrect(lifecycle) /\ Last(applyLog') # "error_getting")
                     => /\ Len(setLog') = Len(setLog) + 1
                        /\ Last(applyLog') \in {"updated", "error_updating"}]_vars

(* C30 witness: an update left the managed rule alone in the configuration,
   so every rule stored before carried the managed identifier and the first
   of them was incorrect *)
FailedToRemoveUnreachableWitness ==
    /\ checkLog = <<"not_configured_properly">>
    /\ applyLog = <<"updated">>
    /\ lifecycle = <<ManagedRule>>
    /\ setLog = <<lifecycle>>

(* C29: when BucketExists answers false or an error, the clean run for that
   bucket returns without having listed a version, selected one or called
   RemoveObjects, and nothing stored is removed; in a clean over all buckets
   the loop goes on with the next bucket, so that cleanVersions returns only
   after a cleanSingleBucket call for every bucket ListBuckets answered. *)
MissingBucketIsSkipped ==
    /\ []((pcMain = "done" /\ report = "bucket_missing")
            => /\ objIdx = 0 /\ totalCount = 0 /\ processedCount = 0
               /\ pcProd = "idle" /\ pcRem = "idle" /\ pcFwd = "idle" /\ pcCol = "idle"
               /\ Selected = <<>>
               /\ Removed = {})
    /\ []((pcClean = "done" /\ bucketName = 0)
            => (cleanPos = nBuckets /\ Len(reports) = nBuckets))
    /\ [][(pcMain = "done" /\ report = "bucket_missing" /\ pcMain' # "done")
            => /\ reports' = Append(reports, "bucket_missing")
               /\ pcClean = "loop" => pcClean' = "loop"
               /\ pcClean = "single" => pcClean' = "done"]_vars

(* C29 witness: the first bucket of an all-buckets clean did not exist and
   the run for the second bucket has removed a version *)
MissingBucketIsSkippedWitness ==
    /\ bucketName = 0
    /\ reports = <<"bucket_missing">>
    /\ cleanPos = 2
    /\ RunEnded
    /\ Removed # {}

(* C31: removeRuleByID returns removed = true exactly when the
   configuration it is given is not nil and holds a rule with the given
   identifier; then the returned rule list is the given list without the
   rules of that identifier, the others in their order; when it returns
   false the configuration and its rule list are as they were given. *)
RemoveRuleByIDContract ==
    removeRet.called
        => LET given == removeArgs.cfg
               id == removeArgs.id
               holds == /\ ~given.isNil
                        /\ \E i \in 1..Len(given.Rules) : given.Rules[i].ID = id
           IN  /\ removeRet.removed <=> holds
               /\ removeRet.removed
                     => /\ ~removeRet.cfg.isNil
                        /\ removeRet.cfg.Rules
                             = SelectSeq(given.Rules, LAMBDA r : r.ID # id)
               /\ ~removeRet.removed => removeRet.cfg = given

(* C31 witness: of three rules the outer two carried the identifier and
   the middle one is what the call returned *)
RemoveRuleByIDContractWitness ==
    /\ removeRet.called
    /\ removeRet.removed
    /\ Len(removeArgs.cfg.Rules) = 3
    /\ removeArgs.cfg.Rules[1].ID = removeArgs.id
    /\ removeArgs.cfg.Rules[3].ID = removeArgs.id
    /\ removeRet.cfg.Rules = <<removeArgs.cfg.Rules[2]>>

(* the rule-list form of removeRuleByID that processBucket is modelled with
   agrees with the call on the pointer *)
RemoveRuleByIDAgrees ==
    (removeRet.called /\ ~removeArgs.cfg.isNil)
        => removeRuleByID(removeArgs.cfg.Rules, removeArgs.id)
             = [cfg |-> removeRet.cfg.Rules, removed |-> removeRet.removed]

=============================================================================
